---- MODULE Spec2Model ----
(***************************************************************************)
(* A model of LLVMProgram (src/llvmProgram.py): the name registry          *)
(* (generateNewName, getLabel), construct with the lookup registries, and  *)
(* the two-pass worklist linearization (generatePipeline).                 *)
(*                                                                         *)
(* Python strings are sequences of one-character strings, so that          *)
(* concatenation and str(int) are computed and not assumed injective.      *)
(* Three specifications share the variables:                               *)
(*   SpecNames     - calls of generateNewName and getLabel on one program  *)
(*   SpecConstruct - __init__/construct over an HLIR, then lookups         *)
(*   SpecPipeline  - generatePipeline over a control-flow graph            *)
(***************************************************************************)
EXTENDS Integers, Sequences, FiniteSets, TLC

VARIABLES
    uniqueNameCounter,  \* self.uniqueNameCounter
    entryPointLabels,   \* self.entryPointLabels: p4node.name -> label
    issued,             \* history: the strings generateNewName returned, in order
    returned,           \* history: node -> the label getLabel last returned for it
    hlir,               \* self.hlir: the input object graph
    modules,            \* names bound at module level by the imports
    pc,                 \* position of the running method
    fault,              \* the exception that ended the run, or NoFault
    todoInstances,      \* header instances the loop of construct has yet to take
    headers,            \* self.headers
    metadata,           \* self.metadata
    stacks,             \* self.stacks
    parsers,            \* self.parsers
    conditionals,       \* self.conditionals
    tables,             \* self.tables
    entryPoints,        \* self.entryPoints
    egressEntry,        \* self.egressEntry
    deparser,           \* self.deparser
    lookup,             \* history: the last lookup call and its outcome
    next_,              \* node -> the values of its next_ mapping
    nodestoadd,         \* the pending set of generatePipelineInternal
    done,               \* the visited set of generatePipelineInternal
    nextEntryPoint,     \* the nextEntryPoint argument of the running pass
    emitted             \* history: pass -> node -> calls of generateControlFlowNode

vars == <<uniqueNameCounter, entryPointLabels, issued, returned, hlir, modules,
          pc, fault, todoInstances, headers, metadata, stacks, parsers,
          conditionals, tables, entryPoints, egressEntry, deparser, lookup,
          next_, nodestoadd, done, nextEntryPoint, emitted>>

registryVars == <<uniqueNameCounter, entryPointLabels, issued, returned>>
constructVars == <<hlir, modules, todoInstances, headers, metadata, stacks,
                   parsers, conditionals, tables, deparser, lookup>>
pipelineVars == <<next_, nodestoadd, done, nextEntryPoint, emitted>>

(***************************************************************************)
(* Bounds: the three numbers below, and the finite sets the inputs are     *)
(* drawn from (NodeNames, Bases, InstanceBases, CalculationNames,          *)
(* ParseStateNames, ConditionalNames, TableNames, QueryNames, Shapes,      *)
(* Nodes).                                                                 *)
(***************************************************************************)
\* generateNewName is called at most MaxCounter times in a run
MaxCounter == 4
\* a node's next_ mapping has at most MaxSucc distinct values
MaxSucc == 2
\* a header stack has MaxIndex + 1 elements
MaxIndex == 1

(***************************************************************************)
(* Strings                                                                 *)
(***************************************************************************)
Digits == <<"0", "1", "2", "3", "4", "5", "6", "7", "8", "9">>

RECURSIVE str(_)
\* Python's str(int) of a non-negative integer: its decimal digits
str(n) == IF n < 10 THEN <<Digits[n + 1]>>
          ELSE str(n \div 10) \o <<Digits[(n % 10) + 1]>>

End == <<"e", "n", "d">>
\* None where a node with a kind and a name is expected (getLabel)
None == [kind |-> "None", name |-> <<>>]
\* None where the pipeline expects a control-flow node
NoNode == "None"
NoLabel == <<>>
NoFault == [kind |-> "NoFault", arg |-> <<>>]
\* an integer attribute that is None
NoIndex == -1

(***************************************************************************)
(* The name registry                                                       *)
(***************************************************************************)
\* the names of tables and conditionals, and the bases handed to generateNewName
NodeNames == { <<"t">>, <<"t", "_", "0">> }
Bases == NodeNames \cup { <<"t", "_">> }
Kinds == {"p4_parse_state", "p4_table", "p4_conditional_node"}
\* HLIR keeps one dictionary per kind, keyed by name: a node is a kind and a name
P4Nodes == [kind : Kinds, name : NodeNames]
               \cup {[kind |-> "p4_parse_state", name |-> End]}

\* the string generateNewName(base) returns when the counter is n
freshName(base, n) == base \o <<"_">> \o str(n)

\* generateNewName with the increment of the counter lost
generateNewNameStuck(base) ==
    /\ uniqueNameCounter < MaxCounter
    /\ issued' = Append(issued, freshName(base, uniqueNameCounter))
    /\ uniqueNameCounter' = uniqueNameCounter

\* LLVMProgram.generateNewName: its return value is the last element of issued'
generateNewName(base) ==
    /\ uniqueNameCounter < MaxCounter
    /\ issued' = Append(issued, freshName(base, uniqueNameCounter))
    /\ uniqueNameCounter' = uniqueNameCounter + 1

\* whether getLabel takes the branch that stores the node's own name
isParseState(p4node) == p4node.kind = "p4_parse_state"

\* whether getLabel finds the map without an entry for the node
notInLabels(p4node, labels) == p4node.name \notin DOMAIN labels

\* the map with key name bound to label
bind(labels, name, label) ==
    [k \in DOMAIN labels \cup {name} |-> IF k = name THEN label ELSE labels[k]]

\* LLVMProgram.getLabel; returned' records its return value
getLabel(p4node) ==
    IF p4node = None
    THEN /\ returned' = [returned EXCEPT ![p4node] = End]
         /\ UNCHANGED <<uniqueNameCounter, entryPointLabels, issued>>
    ELSE LET afterParse == IF isParseState(p4node)
                           THEN bind(entryPointLabels, p4node.name, p4node.name)
                           ELSE entryPointLabels
         IN  IF notInLabels(p4node, afterParse)
             THEN /\ generateNewName(p4node.name)
                  /\ entryPointLabels' =
                         bind(afterParse, p4node.name, issued'[Len(issued')])
                  /\ returned' =
                         [returned EXCEPT ![p4node] = entryPointLabels'[p4node.name]]
             ELSE /\ entryPointLabels' = afterParse
                  /\ returned' = [returned EXCEPT ![p4node] = afterParse[p4node.name]]
                  /\ UNCHANGED <<uniqueNameCounter, issued>>

\* no lookup has been made, no HLIR or graph is in use
NotInUse == <<>>

InitNames ==
    /\ uniqueNameCounter = 0
    /\ entryPointLabels = <<>>
    /\ issued = <<>>
    /\ returned = [n \in P4Nodes \cup {None} |-> NoLabel]
    /\ hlir = NotInUse /\ modules = {} /\ pc = "ready" /\ fault = NoFault
    /\ todoInstances = {} /\ headers = <<>> /\ metadata = <<>> /\ stacks = <<>>
    /\ parsers = <<>> /\ conditionals = <<>> /\ tables = <<>>
    /\ entryPoints = <<>> /\ egressEntry = NoNode /\ deparser = None
    /\ lookup = NotInUse /\ next_ = NotInUse /\ nodestoadd = {} /\ done = {}
    /\ nextEntryPoint = NoNode /\ emitted = NotInUse

CallGenerateNewName ==
    /\ \E base \in Bases : generateNewName(base)
    /\ UNCHANGED <<entryPointLabels, returned>>
    /\ UNCHANGED <<pc, fault, entryPoints, egressEntry>>
    /\ UNCHANGED constructVars /\ UNCHANGED pipelineVars

CallGetLabel ==
    /\ \E p4node \in P4Nodes \cup {None} : getLabel(p4node)
    /\ UNCHANGED <<pc, fault, entryPoints, egressEntry>>
    /\ UNCHANGED constructVars /\ UNCHANGED pipelineVars

NextNames == CallGenerateNewName \/ CallGetLabel

SpecNames == InitNames /\ [][NextNames]_vars

(***************************************************************************)
(* construct and the lookup registries                                     *)
(***************************************************************************)
\* the base names header instances are declared under
InstanceBases == { <<"h">>, <<"s">> }
CalculationNames == { <<"k">> }
ParseStateNames == { <<"p">> }
ConditionalNames == { <<"c">> }
TableNames == { <<"t">> }
\* control-flow nodes, as the pipeline sees them
Nodes == {"n1", "n2", "n3"}
\* the names the lookups are asked for: declared ones and one never declared
QueryNames == InstanceBases \cup ConditionalNames \cup TableNames \cup { <<"x">> }

\* p4_header_instance of a scalar instance
scalarInstance(base, isMetadata) ==
    [name |-> base, base_name |-> base, index |-> NoIndex,
     max_index |-> NoIndex, metadata |-> isMetadata]

\* p4_header_instance of element i of a header stack
elementInstance(base, i) ==
    [name |-> base \o <<"[">> \o str(i) \o <<"]">>, base_name |-> base,
     index |-> i, max_index |-> MaxIndex, metadata |-> FALSE]

\* what an HLIR may declare under one base name: nothing, a header, a
\* metadata instance, or a header stack with all its elements
Shapes == {"absent", "header", "metadata", "stack"}
declared(base, shape) ==
    CASE shape = "absent" -> {}
      [] shape = "header" -> {scalarInstance(base, FALSE)}
      [] shape = "metadata" -> {scalarInstance(base, TRUE)}
      [] shape = "stack" -> {elementInstance(base, i) : i \in 0..MaxIndex}

\* the wrappers of llvmInstance, llvmParser, llvmConditional, llvmDeparser
LLVMHeader(h) == [class |-> "LLVMHeader", name |-> h.name, hlirInstance |-> h]
LLVMMetadata(h) == [class |-> "LLVMMetadata", name |-> h.name, hlirInstance |-> h]
LLVMHeaderStack(h, indexVarName) ==
    [class |-> "LLVMHeaderStack", name |-> h.base_name, hlirInstance |-> h,
     indexVar |-> indexVarName]
LLVMParser(p) == [class |-> "LLVMParser", name |-> p]
LLVMConditional(n) == [class |-> "LLVMConditional", name |-> n]
LLVMDeparser == [class |-> "LLVMDeparser", name |-> <<>>]

\* the sequences that list the set S once each, in some order (a dictionary's
\* values() or keys())
Orders(S) ==
    { q \in [1..Cardinality(S) -> S] : \A i, j \in 1..Cardinality(S) :
                                            i # j => q[i] # q[j] }

IndexSuffix == <<"_", "i", "n", "d", "e", "x">>

\* the test that opens construct, off by one
hasCalculationsOffByOne(h) == Cardinality(h.p4_field_list_calculations) > 1

\* the test that opens construct
hasCalculations(h) == Cardinality(h.p4_field_list_calculations) > 0

\* the collection construct's loop puts h into, every array element included
classifyEveryIndex(h) ==
    IF h.max_index # NoIndex THEN "stacks"
    ELSE IF h.metadata THEN "metadata" ELSE "headers"

\* the collection construct's loop puts header instance h into
classify(h) ==
    IF h.max_index # NoIndex
    THEN IF h.index = 0 THEN "stacks" ELSE "skip"
    ELSE IF h.metadata THEN "metadata" ELSE "headers"

InitConstruct ==
    /\ uniqueNameCounter = 0
    /\ entryPointLabels = <<>>
    /\ issued = <<>>
    /\ returned = [n \in P4Nodes \cup {None} |-> NoLabel]
    /\ \E calcs \in SUBSET CalculationNames, ps \in SUBSET ParseStateNames,
          cs \in SUBSET ConditionalNames, ts \in SUBSET TableNames,
          ingress \in SUBSET {"n1", "n2"}, egress \in {NoNode, "n3"},
          shape \in [InstanceBases -> Shapes] :
          /\ hlir = [p4_field_list_calculations |-> calcs,
                     p4_header_instances |->
                         UNION {declared(b, shape[b]) : b \in InstanceBases},
                     p4_parse_states |-> ps,
                     p4_conditional_nodes |-> cs,
                     p4_tables |-> ts,
                     p4_ingress_ptr |-> ingress,
                     p4_egress_ptr |-> egress]
    \* llvmConditional is used by construct and imported by no line of the file:
    \* whether the name is bound rests on what compilationException exports
    /\ \E m \in SUBSET {"llvmConditional"} :
          modules = {"llvmInstance", "llvmParser", "llvmDeparser"} \cup m
    /\ pc = "construct" /\ fault = NoFault
    /\ todoInstances = {} /\ headers = <<>> /\ metadata = <<>> /\ stacks = <<>>
    /\ parsers = <<>> /\ conditionals = <<>> /\ tables = <<>>
    /\ entryPoints = <<>> /\ egressEntry = NoNode /\ deparser = None
    /\ lookup = NotInUse /\ next_ = NotInUse /\ nodestoadd = {} /\ done = {}
    /\ nextEntryPoint = NoNode /\ emitted = NotInUse

collections == <<headers, metadata, stacks, parsers, conditionals, tables,
                 entryPoints, egressEntry, deparser>>

\* construct, lines 67-70: refuse calculated fields before anything else
CheckCalculations ==
    /\ pc = "construct"
    /\ IF hasCalculations(hlir)
       THEN /\ pc' = "raised"
            /\ \E k \in hlir.p4_field_list_calculations :
                  fault' = [kind |-> "NotSupportedException", arg |-> k]
            /\ UNCHANGED todoInstances
       ELSE /\ pc' = "instances"
            /\ todoInstances' = hlir.p4_header_instances
            /\ UNCHANGED fault
    /\ UNCHANGED <<hlir, modules, lookup>>
    /\ UNCHANGED collections /\ UNCHANGED registryVars /\ UNCHANGED pipelineVars

\* construct, lines 72-86: one iteration of the loop over the header instances
ClassifyInstance ==
    /\ pc = "instances"
    /\ \E h \in todoInstances :
          /\ todoInstances' = todoInstances \ {h}
          /\ IF classify(h) = "stacks"
             THEN /\ generateNewName(h.base_name \o IndexSuffix)
                  /\ stacks' = Append(stacks,
                                      LLVMHeaderStack(h, issued'[Len(issued')]))
                  /\ UNCHANGED <<headers, metadata>>
             ELSE /\ metadata' = IF classify(h) = "metadata"
                                 THEN Append(metadata, LLVMMetadata(h))
                                 ELSE metadata
                  /\ headers' = IF classify(h) = "headers"
                                THEN Append(headers, LLVMHeader(h))
                                ELSE headers
                  /\ UNCHANGED <<stacks, uniqueNameCounter, issued>>
    /\ UNCHANGED <<entryPointLabels, returned, hlir, modules, pc, fault, parsers,
                   conditionals, tables, entryPoints, egressEntry, deparser, lookup>>
    /\ UNCHANGED pipelineVars

\* construct, lines 88-93: the parsers and the entry points
RegisterParsers ==
    /\ pc = "instances" /\ todoInstances = {}
    /\ \E q \in Orders(hlir.p4_parse_states) :
          parsers' = [i \in DOMAIN q |-> LLVMParser(q[i])]
    /\ \E q \in Orders(hlir.p4_ingress_ptr) : entryPoints' = q
    /\ pc' = "conditionals"
    /\ UNCHANGED <<hlir, modules, fault, todoInstances, headers, metadata, stacks,
                   conditionals, tables, egressEntry, deparser, lookup>>
    /\ UNCHANGED registryVars /\ UNCHANGED pipelineVars

\* construct, lines 95-100: the conditionals, the egress entry, the deparser
RegisterConditionals ==
    /\ pc = "conditionals"
    /\ IF hlir.p4_conditional_nodes # {} /\ "llvmConditional" \notin modules
       THEN /\ pc' = "raised"
            /\ fault' = [kind |-> "NameError", arg |-> <<>>]
            /\ UNCHANGED <<conditionals, egressEntry, deparser>>
       ELSE /\ \E q \in Orders(hlir.p4_conditional_nodes) :
                  conditionals' = [i \in DOMAIN q |-> LLVMConditional(q[i])]
            /\ egressEntry' = hlir.p4_egress_ptr
            /\ deparser' = LLVMDeparser
            /\ pc' = "constructed"
            /\ UNCHANGED fault
    /\ UNCHANGED <<hlir, modules, todoInstances, headers, metadata, stacks,
                   parsers, tables, entryPoints, lookup>>
    /\ UNCHANGED registryVars /\ UNCHANGED pipelineVars

\* the index of the first element of coll named name, 0 when there is none
firstMatch(coll, name) ==
    LET hits == {i \in 1..Len(coll) : coll[i].name = name}
    IN  IF hits = {} THEN 0 ELSE CHOOSE i \in hits : \A j \in hits : i <= j

\* the collections a lookup method scans, in its order
scanned(method) ==
    CASE method = "getStackInstance" -> stacks
      [] method = "getHeaderInstance" -> headers
      [] method = "getInstance" -> headers \o metadata
      [] method = "getTable" -> tables
      [] method = "getConditional" -> conditionals

\* the kind the CompilationException of a lookup method names
kindOf(method) ==
    CASE method = "getStackInstance" -> "header stack"
      [] method = "getHeaderInstance" -> "header instance"
      [] method = "getInstance" -> "instance"
      [] method = "getTable" -> "table"
      [] method = "getConditional" -> "conditional"

LookupMethods == {"getStackInstance", "getHeaderInstance", "getInstance",
                  "getTable", "getConditional"}

\* what method(name) does: the element returned, or the exception raised
outcome(method, name) ==
    LET coll == scanned(method)
        i == firstMatch(coll, name)
    IN  IF i # 0
        THEN [method |-> method, name |-> name, found |-> TRUE,
              value |-> coll[i], raised |-> NoFault]
        ELSE [method |-> method, name |-> name, found |-> FALSE, value |-> None,
              raised |-> [kind |-> "CompilationException",
                          arg |-> <<kindOf(method), name>>]]

\* getStackInstance, getHeaderInstance, getInstance, getTable, getConditional
Lookup ==
    /\ pc = "constructed"
    /\ \E method \in LookupMethods, name \in QueryNames :
          lookup' = outcome(method, name)
    /\ UNCHANGED <<hlir, modules, pc, fault, todoInstances>>
    /\ UNCHANGED collections /\ UNCHANGED registryVars /\ UNCHANGED pipelineVars

NextConstruct ==
    \/ CheckCalculations
    \/ ClassifyInstance
    \/ RegisterParsers
    \/ RegisterConditionals
    \/ Lookup

SpecConstruct == InitConstruct /\ [][NextConstruct]_vars

(***************************************************************************)
(* generatePipeline                                                        *)
(***************************************************************************)
Passes == {"ingress", "egress"}

\* the values a next_ mapping may hold: nodes and None
Successors == {S \in SUBSET (Nodes \cup {NoNode}) : Cardinality(S) <= MaxSucc}

\* the elements of a list, as the set that add() builds from it
elements(list) == {list[i] : i \in DOMAIN list}

InitPipeline ==
    /\ uniqueNameCounter = 0
    /\ entryPointLabels = <<>>
    /\ issued = <<>>
    /\ returned = [n \in P4Nodes \cup {None} |-> NoLabel]
    /\ hlir = NotInUse /\ modules = {} /\ fault = NoFault
    /\ todoInstances = {} /\ headers = <<>> /\ metadata = <<>> /\ stacks = <<>>
    /\ parsers = <<>> /\ conditionals = <<>> /\ tables = <<>>
    /\ deparser = LLVMDeparser /\ lookup = NotInUse
    \* the state construct leaves: the entry points and the egress entry
    /\ entryPoints \in UNION {Orders(S) : S \in SUBSET Nodes}
    /\ egressEntry \in Nodes \cup {NoNode}
    /\ next_ \in [Nodes -> Successors]
    /\ pc = "generatePipeline"
    /\ nodestoadd = {} /\ done = {} /\ nextEntryPoint = NoNode
    /\ emitted = [pass \in Passes |-> [n \in Nodes |-> <<>>]]

\* the test of the loop with the check for None lost
skippedNoneUnchecked(todo, visited) == todo \in visited

\* generatePipelineInternal, lines 260-263: whether the popped element is dropped
skipped(todo, visited) == todo \in visited \/ todo = NoNode

\* the visited set with the insertion lost
markDoneLost(visited, todo) == visited

\* generatePipelineInternal, line 267: done.add(todo)
markDone(visited, todo) == visited \cup {todo}

\* generatePipeline, lines 274-277, and line 257: the ingress pass is entered
StartIngress ==
    /\ pc = "generatePipeline"
    /\ nodestoadd' = elements(entryPoints)
    /\ nextEntryPoint' = egressEntry
    /\ done' = {}
    /\ pc' = "ingress"
    /\ UNCHANGED <<next_, emitted, fault, entryPoints, egressEntry>>
    /\ UNCHANGED constructVars /\ UNCHANGED registryVars

\* generatePipelineInternal, lines 258-271: one iteration of the loop; pop()
\* takes an arbitrary element
Iterate ==
    /\ pc \in Passes
    /\ \E todo \in nodestoadd :
          IF skipped(todo, done)
          THEN /\ nodestoadd' = nodestoadd \ {todo}
               /\ UNCHANGED <<done, emitted, pc, fault>>
          ELSE IF todo = NoNode
          THEN \* line 265 reads todo.name
               /\ pc' = "raised"
               /\ fault' = [kind |-> "AttributeError", arg |-> <<>>]
               /\ nodestoadd' = nodestoadd \ {todo}
               /\ UNCHANGED <<done, emitted>>
          ELSE /\ done' = markDone(done, todo)
               /\ emitted' = [emitted EXCEPT
                                 ![pc][todo] = Append(@, nextEntryPoint)]
               /\ nodestoadd' = (nodestoadd \ {todo}) \cup next_[todo]
               /\ UNCHANGED <<pc, fault>>
    /\ UNCHANGED <<next_, nextEntryPoint, entryPoints, egressEntry>>
    /\ UNCHANGED constructVars /\ UNCHANGED registryVars

\* generatePipeline, lines 278-280, and line 257: the ingress loop has ended
\* and the egress pass is entered
StartEgress ==
    /\ pc = "ingress" /\ nodestoadd = {}
    /\ nodestoadd' = {egressEntry}
    /\ nextEntryPoint' = NoNode
    /\ done' = {}
    /\ pc' = "egress"
    /\ UNCHANGED <<next_, emitted, fault, entryPoints, egressEntry>>
    /\ UNCHANGED constructVars /\ UNCHANGED registryVars

\* the egress loop has ended and generatePipeline returns
Return ==
    /\ pc = "egress" /\ nodestoadd = {}
    /\ pc' = "returned"
    /\ UNCHANGED <<next_, nodestoadd, done, nextEntryPoint, emitted, fault,
                   entryPoints, egressEntry>>
    /\ UNCHANGED constructVars /\ UNCHANGED registryVars

NextPipeline == StartIngress \/ Iterate \/ StartEgress \/ Return

SpecPipeline == InitPipeline /\ [][NextPipeline]_vars

(***************************************************************************)
(* Claims about the name registry (checked under SpecNames)                *)
(***************************************************************************)
\* C1: no two calls of generateNewName, made directly or by getLabel, with
\* whatever bases, return the same string.
C1_FreshNamesDistinct ==
    \A i, j \in 1..Len(issued) : i # j => issued[i] # issued[j]

\* C1 witness: three names issued, two of them for the same base, which
\* itself ends in "_0", and one of them issued through getLabel.
C1_Witness ==
    /\ Len(issued) >= 3
    /\ \E i, j \in 1..Len(issued) :
          /\ i # j
          /\ issued[i] = freshName(<<"t", "_", "0">>, i - 1)
          /\ issued[j] = freshName(<<"t", "_", "0">>, j - 1)
    /\ \E n \in P4Nodes : returned[n] \in {issued[i] : i \in 1..Len(issued)}

\* C2 (as claimed): once getLabel has returned a label for a node, every later
\* call for that node returns the same label, and no entry of the label map
\* is overwritten or removed.
C2_LabelsWriteOnce ==
    [][ /\ \A n \in P4Nodes \cup {None} :
              returned[n] # NoLabel => returned'[n] = returned[n]
        /\ \A k \in DOMAIN entryPointLabels :
              /\ k \in DOMAIN entryPointLabels'
              /\ entryPointLabels'[k] = entryPointLabels[k] ]_vars

\* C3 (as claimed): two distinct nodes, the end sentinel included, never hold
\* the same label.
C3_LabelsInjective ==
    \A n1, n2 \in P4Nodes \cup {None} :
        (n1 # n2 /\ returned[n1] # NoLabel /\ returned[n2] # NoLabel)
            => returned[n1] # returned[n2]

(***************************************************************************)
(* Claims about construct and the lookups (checked under SpecConstruct)    *)
(***************************************************************************)
\* the positions of coll that wrap header instance h
wrapping(coll, h) == {i \in 1..Len(coll) : coll[i].hlirInstance = h}

\* C7: after construct every header instance is wrapped in exactly one of
\* headers, metadata, stacks (array element -> stacks, else metadata flag ->
\* metadata, else headers), except the array elements of non-zero index,
\* which are in none; each array group has exactly one stack entry, made of
\* its element 0, with an index-variable name of its own; and the three
\* collections hold nothing else.
C7_ClassificationTotalExclusive ==
    pc = "constructed" =>
      /\ \A h \in hlir.p4_header_instances :
            LET nH == Cardinality(wrapping(headers, h))
                nM == Cardinality(wrapping(metadata, h))
                nS == Cardinality(wrapping(stacks, h))
            IN  IF h.max_index # NoIndex
                THEN nH = 0 /\ nM = 0 /\ nS = (IF h.index = 0 THEN 1 ELSE 0)
                ELSE IF h.metadata
                     THEN nH = 0 /\ nM = 1 /\ nS = 0
                     ELSE nH = 1 /\ nM = 0 /\ nS = 0
      /\ \A i \in 1..Len(headers) : headers[i].hlirInstance \in hlir.p4_header_instances
      /\ \A i \in 1..Len(metadata) : metadata[i].hlirInstance \in hlir.p4_header_instances
      /\ \A i \in 1..Len(stacks) : stacks[i].hlirInstance \in hlir.p4_header_instances
      /\ \A h \in hlir.p4_header_instances :
            h.max_index # NoIndex =>
               Cardinality({i \in 1..Len(stacks) :
                               stacks[i].hlirInstance.base_name = h.base_name}) = 1
      /\ \A i, j \in 1..Len(stacks) : i # j => stacks[i].indexVar # stacks[j].indexVar
      /\ \A i \in 1..Len(stacks) :
            \E k \in 1..Len(issued) : issued[k] = stacks[i].indexVar
      /\ uniqueNameCounter = Len(stacks)

\* C7 witness: construct has ended on an HLIR declaring a header stack and a
\* metadata instance.
C7_Witness ==
    /\ pc = "constructed"
    /\ Len(stacks) = 1 /\ Len(metadata) = 1 /\ Len(headers) = 0
    /\ Cardinality(hlir.p4_header_instances) = MaxIndex + 2

\* the entities the HLIR declares resolve through the lookup of their kind
Resolvable ==
    /\ \A h \in hlir.p4_header_instances :
          IF h.max_index # NoIndex
          THEN outcome("getStackInstance", h.base_name).found
          ELSE /\ outcome("getInstance", h.name).found
               /\ ~h.metadata => outcome("getHeaderInstance", h.name).found
    /\ \A c \in hlir.p4_conditional_nodes : outcome("getConditional", c).found
    /\ \A t \in hlir.p4_tables : outcome("getTable", t).found

\* C8 (as claimed): a lookup returns the first element of its collection
\* (headers before metadata for getInstance) with the requested name, or
\* raises the not-found fault naming the kind and the name, and changes no
\* collection, label or counter; and once construct has ended, every entity
\* the HLIR declares is resolvable.
C8_LookupsResolve ==
    [][ /\ lookup' # lookup =>
              /\ UNCHANGED <<headers, metadata, stacks, parsers, conditionals,
                             tables, entryPoints, egressEntry, deparser,
                             entryPointLabels, uniqueNameCounter>>
              /\ LET coll == scanned(lookup'.method)
                     hits == {i \in 1..Len(coll) : coll[i].name = lookup'.name}
                 IN  IF hits = {}
                     THEN /\ ~lookup'.found
                          /\ lookup'.raised.kind = "CompilationException"
                          /\ lookup'.raised.arg =
                                 <<kindOf(lookup'.method), lookup'.name>>
                     ELSE /\ lookup'.found
                          /\ \E i \in hits : /\ lookup'.value = coll[i]
                                             /\ \A j \in hits : i <= j
        /\ pc' = "constructed" => Resolvable' ]_vars

\* C9: with at least one calculated-field-list entry construct raises the
\* unsupported-feature fault, naming a calculated field, whatever else the
\* HLIR holds, and does so before any effect: nothing is registered and the
\* counter is 0.
C9_CalculatedFieldsRefused ==
    hlir.p4_field_list_calculations # {} =>
      /\ pc \in {"construct", "raised"}
      /\ pc = "raised" =>
            /\ fault.kind = "NotSupportedException"
            /\ fault.arg \in hlir.p4_field_list_calculations
      /\ headers = <<>> /\ metadata = <<>> /\ stacks = <<>> /\ parsers = <<>>
      /\ conditionals = <<>> /\ tables = <<>> /\ entryPoints = <<>>
      /\ egressEntry = NoNode /\ deparser = None
      /\ uniqueNameCounter = 0 /\ issued = <<>>

\* C9 witness: construct has raised on an HLIR that also declares header
\* instances, a parse state, a conditional and entry points.
C9_Witness ==
    /\ pc = "raised" /\ fault.kind = "NotSupportedException"
    /\ Cardinality(hlir.p4_header_instances) >= 2
    /\ hlir.p4_parse_states # {} /\ hlir.p4_conditional_nodes # {}
    /\ hlir.p4_ingress_ptr # {} /\ hlir.p4_egress_ptr # NoNode

(***************************************************************************)
(* Claims about generatePipeline (checked under SpecPipeline/FairPipeline) *)
(***************************************************************************)
RECURSIVE closure(_, _)
\* seen, closed under next_ from frontier
closure(frontier, seen) ==
    IF frontier \subseteq seen THEN seen
    ELSE closure((UNION {next_[n] : n \in frontier \ seen}) \cap Nodes,
                 seen \cup frontier)

\* the nodes reachable from seeds through next_ edges
Reach(seeds) == closure(seeds \cap Nodes, {})

\* the seeds of a pass
seedsOf(pass) == IF pass = "ingress" THEN elements(entryPoints) ELSE {egressEntry}

\* the loop of a pass has ended
ended(pass) ==
    IF pass = "ingress"
    THEN (pc = "ingress" /\ nodestoadd = {}) \/ pc \in {"egress", "returned"}
    ELSE pc = "returned"

\* C4: within a pass, whatever the seeds and the order of removal,
\* generateControlFlowNode is called at most once per node and only for
\* nodes reachable from the seeds, and when the pass ends it has been called
\* exactly once for each of them.
C4_EachReachableNodeOncePerPass ==
    \A pass \in Passes : \A n \in Nodes :
        /\ Len(emitted[pass][n]) <= 1
        /\ Len(emitted[pass][n]) = 1 => n \in Reach(seedsOf(pass))
        /\ (ended(pass) /\ n \in Reach(seedsOf(pass))) => Len(emitted[pass][n]) = 1

\* C4 witness: a pass has ended on a diamond (two emitted nodes share an
\* emitted successor) that also holds a cycle, entered from two seeds.
C4_Witness ==
    /\ ended("ingress") /\ pc = "ingress"
    /\ Len(entryPoints) = 2
    /\ \E a, b, c \in Nodes :
          /\ a # b /\ b # c /\ a # c
          /\ c \in next_[a] /\ c \in next_[b] /\ a \in next_[c]
          /\ \A n \in {a, b, c} : Len(emitted["ingress"][n]) = 1

\* C5 (as claimed): the egress entry node is emitted exactly once over the
\* run, in the egress pass with next entry point none, and is never in the
\* pending or visited set of the ingress pass.
C5_EgressEntryOnlyInEgressPass ==
    egressEntry # NoNode =>
      /\ emitted["ingress"][egressEntry] = <<>>
      /\ pc = "ingress" => egressEntry \notin nodestoadd \cup done
      /\ pc = "returned" => emitted["egress"][egressEntry] = <<NoNode>>

\* C6 (as claimed): over the two passes no node is emitted more than once.
C6_NoNodeEmittedTwice ==
    \A n \in Nodes : Len(emitted["ingress"][n]) + Len(emitted["egress"][n]) <= 1

\* the position of the run, counted down to the return
phase == CASE pc = "generatePipeline" -> 3
           [] pc = "ingress" -> 2
           [] pc = "egress" -> 1
           [] OTHER -> 0

\* a natural number that bounds the steps left: the position, then the nodes
\* the running pass has not visited, then the size of the pending set
stepsLeft ==
    LET base == Cardinality(Nodes) + 2
    IN  phase * base * base + Cardinality(Nodes \ done) * base
            + Cardinality(nodestoadd)

\* C10: generatePipeline ends on every graph and raises nothing: every step
\* lowers stepsLeft, a natural number, so there are finitely many, cycles or
\* not; a state short of the return always has a next step; None, as a
\* successor or as the egress entry, is dropped, never visited and never
\* emitted; and each pass ends with its pending set empty.
C10_PipelineTerminates ==
    /\ [](/\ fault = NoFault /\ pc # "raised"
          /\ NoNode \notin done
          /\ stepsLeft >= 0
          /\ pc = "returned" \/ ENABLED NextPipeline
          /\ pc = "returned" => nodestoadd = {})
    /\ [][ /\ stepsLeft' < stepsLeft
           /\ pc' # pc /\ pc \in Passes => nodestoadd = {} ]_vars

\* C10 witness: the run has ended on a graph with a two-node cycle, a None
\* successor and no egress entry.
C10_Witness ==
    /\ pc = "returned" /\ egressEntry = NoNode
    /\ \E a, b \in Nodes :
          /\ a # b /\ next_[a] = {b, NoNode} /\ a \in next_[b]
          /\ Len(emitted["ingress"][a]) = 1 /\ Len(emitted["ingress"][b]) = 1

====
